---- MODULE Spec2Model ----
(***************************************************************************)
(* Model of the test-attempt lifecycle of the mock-aptitude platform: the  *)
(* test-management edge function                                           *)
(* (supabase/functions/test-management/index.ts) running against the      *)
(* relational store whose schema is given in NETLIFY_DEPLOYMENT.md.        *)
(*                                                                         *)
(* Every request handler is split at its awaited store calls: one action   *)
(* per store call, together with the synchronous code that follows it up   *)
(* to the next await or to the response.  Several requests may be in       *)
(* flight at once (one per element of Procs).                              *)
(*                                                                         *)
(* Scores are kept in quarters of a mark (1 mark = 4, 0.25 mark = 1): the  *)
(* code only ever adds 1 and subtracts 0.25, which are exact in binary     *)
(* floating point and in the decimal column, so nothing is rounded.        *)
(***************************************************************************)
EXTENDS Integers, FiniteSets, Sequences, TLC

\* ------------------------------------------------------------------ bounds
MaxTime == 3
AltTotalQuestions == 30
AltDurationMinutes == 120
MaxReloads == 1
FewTotalQuestions == 1

\* ------------------------------------------------------- program constants
HardCodedTotal == 40
DefaultTotalQuestions == 40
DefaultDurationMinutes == 60
HardCodedSeconds == 3600
CorrectMark == 4
IncorrectPenalty == 1

\* ------------------------------------------------------------- small sets
Procs == {"p1", "p2"}
Students == {"s1"}
TestIds == {"t1"}
Times == 0..MaxTime
SelectedLetters == {"A", "B", "a"}
TotalChoices == {DefaultTotalQuestions, AltTotalQuestions}
AttemptIdInputs == 1..(Cardinality(Students) * Cardinality(TestIds))

\* questions table as installed: the rows of the test, keyed by id
\* (correct_answer only)
SampleQuestions == [q1 |-> [test_id |-> "t1", correct_answer |-> "A"],
                    q2 |-> [test_id |-> "t1", correct_answer |-> "B"]]
QuestionIds == DOMAIN SampleQuestions

NoTime == -1

VARIABLES
  now,        \* the server clock (new Date())
  tests,      \* tests table: id -> row
  attempts,   \* test_attempts table: set of rows
  answers,    \* student_answers table: set of rows
  proc,       \* per in-flight request: position in its handler and locals
  ret,        \* the response sent by the latest step, NoRet if it sent none
  client,     \* state of the mounted StudentTest component
  net,        \* per handler: the fetch of the component it serves, if any
  questions   \* questions table: id -> row

vars == <<now, tests, attempts, answers, proc, ret, client, net, questions>>

Idle == [pc |-> "idle"]

\* no StudentTest component is mounted (the specifications of the handlers
\* alone)
Unmounted == [pc |-> "unmounted"]
NoRet == [action |-> "none"]

Response(action, req, status, body) ==
  [action |-> action, req |-> req, status |-> status, body |-> body]

\* A handler that serves a fetch of the component hands its response to that
\* fetch (await fetch(...) resolves with it); a request from anyone else
\* leaves the component's fetches alone.  A step of a handler never touches
\* the component's state, and no handler writes the questions table.
Free == [owner |-> "none"]

Post(p) ==
  /\ net' = IF net[p] = Free THEN net
            ELSE [net EXCEPT ![p].stage =
                               IF ret' = NoRet THEN "handling" ELSE "replied",
                             ![p].resp = ret']
  /\ client' = client
  /\ questions' = questions

\* ------------------------------------------------------------ store layer
\* test_attempts: UNIQUE(student_id, test_id)
AttemptsOf(s, t) == {a \in attempts : a.student_id = s /\ a.test_id = t}

\* the constraint left out
NoUniqueViolation(s, t) == FALSE

AttemptUniqueViolation(s, t) == AttemptsOf(s, t) # {}

AttemptById(id) == {a \in attempts : a.id = id}

\* gen_random_uuid(): a fresh id
FreshAttemptId == Cardinality(attempts) + 1

\* an insert that stamps the row as submitted
NewAttemptSubmitted(s, t) ==
  [id |-> FreshAttemptId, student_id |-> s, test_id |-> t, started_at |-> now,
   submitted_at |-> now, score |-> 0, is_completed |-> FALSE]

\* row inserted by start-test; submitted_at, score, is_completed take the
\* column defaults
NewAttempt(s, t) ==
  [id |-> FreshAttemptId, student_id |-> s, test_id |-> t, started_at |-> now,
   submitted_at |-> NoTime, score |-> 0, is_completed |-> FALSE]

\* student_answers: UNIQUE(attempt_id, question_id), FKs to test_attempts
\* and questions
\* a read that recomputes is_correct from the questions as they are now
AnswersOfRechecked(id) ==
  {[r EXCEPT !.is_correct =
       questions[r.question_id].correct_answer = r.selected_answer]
     : r \in {x \in answers : x.attempt_id = id}}

AnswersOf(id) == {r \in answers : r.attempt_id = id}

AnswersAt(id, q) == {r \in answers : r.attempt_id = id /\ r.question_id = q}

\* supabase-js upsert() without onConflict resolves conflicts on the primary
\* key only.  The row sent carries no id, so the store generates a fresh one
\* and ON CONFLICT (id) never fires: the statement is an INSERT, which the
\* UNIQUE(attempt_id, question_id) constraint or a foreign key can reject.
UpsertRejected(row) ==
  \/ AttemptById(row.attempt_id) = {}
  \/ row.selected_answer \notin {"A", "B", "C", "D"}
  \/ row.question_id \notin QuestionIds
  \/ AnswersAt(row.attempt_id, row.question_id) # {}

\* an upsert keyed by the attempt alone: the attempt's other answers are lost
UpsertedByAttempt(row) ==
  {r \in answers : r.attempt_id # row.attempt_id} \cup {row}

\* the table after the accepted statement: one more row, the others untouched
Upserted(row) == answers \cup {row}

\* --------------------------------------------------------------- start-test
\* the guard without its upper bound
IsAdmissibleNoEnd(test) ==
  /\ test.is_active
  /\ ~(now < test.start_time)

\* the guard closing one instant early
IsAdmissibleExclusiveEnd(test) ==
  /\ test.is_active
  /\ ~(now < test.start_time \/ now >= test.end_time)

IsAdmissible(test) ==
  /\ test.is_active
  /\ ~(now < test.start_time \/ now > test.end_time)

\* a resume that restarts the clock
ResumeBodyRestart(a) == [attemptId |-> a.id, startedAt |-> now]

ResumeBody(a) == [attemptId |-> a.id, startedAt |-> a.started_at]

\* a resume that does not look at is_completed
ExistingResponseNoCheck(req, a) ==
  Response("start-test", req, 200, ResumeBody(a))

\* if (existingAttempt) { if (existingAttempt.is_completed) ... else ... }
ExistingResponse(req, a) ==
  IF a.is_completed
  THEN Response("start-test", req, 400,
                [error |-> "You have already completed this test"])
  ELSE Response("start-test", req, 200, ResumeBody(a))

\* the error of the two early returns: no active row for the id (lines
\* 30-35), else outside the window (lines 41-46)
DenialError(test) ==
  IF ~test.is_active THEN "Test not found or not active"
  ELSE "Test is not available at this time"

StartTestCheck(p, s, t) ==
  /\ proc[p].pc = "idle"
  /\ LET req == [studentId |-> s, testId |-> t] IN
     IF ~IsAdmissible(tests[t])
     THEN /\ ret' = Response("start-test", req, 400,
                             [error |-> DenialError(tests[t])])
          /\ proc' = proc
     ELSE /\ ret' = NoRet
          /\ proc' = [proc EXCEPT ![p] =
                        [pc |-> "st_existing", studentId |-> s, testId |-> t]]
  /\ UNCHANGED <<now, tests, attempts, answers>>
  /\ Post(p)

StartTestExisting(p) ==
  /\ proc[p].pc = "st_existing"
  /\ LET req == [studentId |-> proc[p].studentId, testId |-> proc[p].testId]
         existing == AttemptsOf(req.studentId, req.testId)
     IN IF existing # {}
        THEN LET a == CHOOSE x \in existing : TRUE IN
             /\ ret' = ExistingResponse(req, a)
             /\ proc' = [proc EXCEPT ![p] = Idle]
        ELSE /\ ret' = NoRet
             /\ proc' = [proc EXCEPT ![p].pc = "st_insert"]
  /\ UNCHANGED <<now, tests, attempts, answers>>
  /\ Post(p)

StartTestInsert(p) ==
  /\ proc[p].pc = "st_insert"
  /\ LET req == [studentId |-> proc[p].studentId, testId |-> proc[p].testId]
         row == NewAttempt(req.studentId, req.testId)
     IN IF AttemptUniqueViolation(req.studentId, req.testId)
        THEN /\ ret' = Response("start-test", req, 500,
                                [error |-> "Failed to start test"])
             /\ attempts' = attempts
        ELSE /\ ret' = Response("start-test", req, 200, ResumeBody(row))
             /\ attempts' = attempts \cup {row}
  /\ proc' = [proc EXCEPT ![p] = Idle]
  /\ UNCHANGED <<now, tests, answers>>
  /\ Post(p)

\* ------------------------------------------------------------ submit-answer
\* question?.correct_answer === selectedAnswer
IsCorrect(q, selectedAnswer) ==
  q \in QuestionIds /\ questions[q].correct_answer = selectedAnswer

SubmitAnswerQuestion(p, id, q, selectedAnswer) ==
  /\ proc[p].pc = "idle"
  /\ proc' = [proc EXCEPT ![p] =
                [pc |-> "sa_upsert", attemptId |-> id, questionId |-> q,
                 selectedAnswer |-> selectedAnswer,
                 isCorrect |-> IsCorrect(q, selectedAnswer)]]
  /\ ret' = NoRet
  /\ UNCHANGED <<now, tests, attempts, answers>>
  /\ Post(p)

SubmitAnswerUpsert(p) ==
  /\ proc[p].pc = "sa_upsert"
  /\ LET req == [attemptId |-> proc[p].attemptId,
                 questionId |-> proc[p].questionId,
                 selectedAnswer |-> proc[p].selectedAnswer]
         row == [attempt_id |-> req.attemptId, question_id |-> req.questionId,
                 selected_answer |-> req.selectedAnswer,
                 is_correct |-> proc[p].isCorrect]
     IN IF UpsertRejected(row)
        THEN /\ ret' = Response("submit-answer", req, 500,
                                [error |-> "Failed to save answer"])
             /\ answers' = answers
        ELSE /\ ret' = Response("submit-answer", req, 200, [success |-> TRUE])
             /\ answers' = Upserted(row)
  /\ proc' = [proc EXCEPT ![p] = Idle]
  /\ UNCHANGED <<now, tests, attempts>>
  /\ Post(p)

\* -------------------------------------------------------------- submit-test
\* the answers?.forEach(...) loop, as a fold over the rows read; tally is
\* [score, correct, incorrect]
\* a wrong answer costing a whole mark
RECURSIVE TallyFullPenalty(_)
TallyFullPenalty(rows) ==
  IF rows = {} THEN [score |-> 0, correct |-> 0, incorrect |-> 0]
  ELSE LET r == CHOOSE x \in rows : TRUE
           rest == TallyFullPenalty(rows \ {r})
       IN IF r.is_correct
          THEN [score |-> rest.score + CorrectMark,
                correct |-> rest.correct + 1, incorrect |-> rest.incorrect]
          ELSE [score |-> rest.score - CorrectMark,
                correct |-> rest.correct, incorrect |-> rest.incorrect + 1]

RECURSIVE Tally(_)
Tally(rows) ==
  IF rows = {} THEN [score |-> 0, correct |-> 0, incorrect |-> 0]
  ELSE LET r == CHOOSE x \in rows : TRUE
           rest == Tally(rows \ {r})
       IN IF r.is_correct
          THEN [score |-> rest.score + CorrectMark,
                correct |-> rest.correct + 1, incorrect |-> rest.incorrect]
          ELSE [score |-> rest.score - IncorrectPenalty,
                correct |-> rest.correct, incorrect |-> rest.incorrect + 1]

Unattempted(attempted) == HardCodedTotal - attempted

\* a submit-test that first applies the start-test window check
SubmitTestAnswersGuarded(p, id) ==
  /\ proc[p].pc = "idle"
  /\ IF \E a \in AttemptById(id) : ~IsAdmissible(tests[a.test_id])
       THEN /\ ret' = Response("submit-test", [attemptId |-> id], 400,
                               [error |-> "Test is not available at this time"])
            /\ proc' = proc
       ELSE /\ ret' = NoRet
            /\ LET rows == AnswersOf(id)
                   tally == Tally(rows)
                   attempted == Cardinality(rows)
               IN proc' = [proc EXCEPT ![p] =
                             [pc |-> "su_update", attemptId |-> id,
                              score |-> tally.score, attempted |-> attempted,
                              correct |-> tally.correct,
                              incorrect |-> tally.incorrect,
                              unattempted |-> Unattempted(attempted)]]
  /\ UNCHANGED <<now, tests, attempts, answers>>
  /\ Post(p)

SubmitTestAnswers(p, id) ==
  /\ proc[p].pc = "idle"
  /\ LET rows == AnswersOf(id)
         tally == Tally(rows)
         attempted == Cardinality(rows)
     IN proc' = [proc EXCEPT ![p] =
                   [pc |-> "su_update", attemptId |-> id,
                    score |-> tally.score, attempted |-> attempted,
                    correct |-> tally.correct, incorrect |-> tally.incorrect,
                    unattempted |-> Unattempted(attempted)]]
  /\ ret' = NoRet
  /\ UNCHANGED <<now, tests, attempts, answers>>
  /\ Post(p)

\* update({submitted_at, score, is_completed: true}).eq('id', attemptId):
\* rewrites the row whatever its current is_completed; no row, no error
\* an update that forgets the score
FinalizedNoScore(a, score) ==
  [a EXCEPT !.submitted_at = now, !.is_completed = TRUE]

Finalized(a, score) ==
  [a EXCEPT !.submitted_at = now, !.score = score, !.is_completed = TRUE]

SubmitTestUpdate(p) ==
  /\ proc[p].pc = "su_update"
  /\ LET id == proc[p].attemptId IN
     /\ attempts' = {IF a.id = id THEN Finalized(a, proc[p].score) ELSE a
                       : a \in attempts}
     /\ ret' = Response("submit-test", [attemptId |-> id], 200,
                        [score |-> proc[p].score,
                         attempted |-> proc[p].attempted,
                         correct |-> proc[p].correct,
                         incorrect |-> proc[p].incorrect,
                         unattempted |-> proc[p].unattempted])
  /\ proc' = [proc EXCEPT ![p] = Idle]
  /\ UNCHANGED <<now, tests, answers>>
  /\ Post(p)

\* the update comes back with updateError (store or network failure): the
\* row is not written and the handler answers 500 without a score
SubmitTestUpdateFails(p) ==
  /\ proc[p].pc = "su_update"
  /\ ret' = Response("submit-test", [attemptId |-> proc[p].attemptId], 500,
                     [error |-> "Failed to submit test"])
  /\ proc' = [proc EXCEPT ![p] = Idle]
  /\ UNCHANGED <<now, tests, attempts, answers>>
  /\ Post(p)

\* -------------------------------------------------------------- get-results
\* select(...).eq('is_completed', true).order('submitted_at', descending)
\* a select that forgets the filter
AllAttempts == attempts

CompletedAttempts == {a \in attempts : a.is_completed}

SortedDescending(rows) ==
  \A i \in 1..(Len(rows) - 1) : rows[i].submitted_at >= rows[i + 1].submitted_at

\* the orders the store may return the rows in: each row once, latest
\* submitted_at first, rows with equal submitted_at either way round
Ordered(rowSet) ==
  {rows \in [1..Cardinality(rowSet) -> rowSet] :
     /\ \A i, j \in 1..Cardinality(rowSet) : rows[i] = rows[j] => i = j
     /\ SortedDescending(rows)}

GetResults(p) ==
  /\ proc[p].pc = "idle"
  /\ \E rows \in Ordered(CompletedAttempts) :
       ret' = Response("get-results", [all |-> TRUE], 200, rows)
  /\ UNCHANGED <<now, tests, attempts, answers, proc>>
  /\ Post(p)

\* the select comes back with resultsError
GetResultsFails(p) ==
  /\ proc[p].pc = "idle"
  /\ ret' = Response("get-results", [all |-> TRUE], 500,
                     [error |-> "Failed to fetch results"])
  /\ UNCHANGED <<now, tests, attempts, answers, proc>>
  /\ Post(p)

\* -------------------------------------------------------------- manage-test
\* update(updates).eq('id', testId), one column per request
ManageTest(p, t, column, value) ==
  /\ proc[p].pc = "idle"
  /\ tests' = [tests EXCEPT ![t][column] = value]
  /\ ret' = Response("manage-test", [testId |-> t], 200, [success |-> TRUE])
  /\ UNCHANGED <<now, attempts, answers, proc, client, net, questions>>

TestUpdates ==
  ({"is_active"} \X BOOLEAN) \cup ({"total_questions"} \X TotalChoices)

\* ---------------------------------------------------------------- clock
Tick ==
  /\ now < MaxTime
  /\ now' = now + 1
  /\ ret' = NoRet
  /\ UNCHANGED <<tests, attempts, answers, proc, client, net, questions>>

\* The store after the schema is installed and the administrator has
\* configured the test: active, 40 questions, a window that opens after the
\* clock's first instant and closes before its last, so that the clock passes
\* through not-yet-started, open and expired.  No attempt, no answer, no
\* request in flight.
Init ==
  /\ now = 0
  /\ tests = [t \in TestIds |->
                [is_active |-> TRUE, start_time |-> 1, end_time |-> MaxTime - 1,
                 total_questions |-> DefaultTotalQuestions,
                 duration_minutes |-> DefaultDurationMinutes]]
  /\ attempts = {}
  /\ answers = {}
  /\ proc = [p \in Procs |-> Idle]
  /\ ret = NoRet
  /\ client = Unmounted
  /\ net = [p \in Procs |-> Free]
  /\ questions = SampleQuestions

\* the first store call of a request, taken when the request arrives
Begin(p) ==
  \/ \E s \in Students, t \in TestIds : StartTestCheck(p, s, t)
  \/ \E id \in AttemptIdInputs, q \in QuestionIds, l \in SelectedLetters :
       SubmitAnswerQuestion(p, id, q, l)
  \/ \E id \in AttemptIdInputs : SubmitTestAnswers(p, id)
  \/ \E t \in TestIds, u \in TestUpdates : ManageTest(p, t, u[1], u[2])

\* the later store calls of a request in flight
Continue(p) ==
  \/ StartTestExisting(p)
  \/ StartTestInsert(p)
  \/ SubmitAnswerUpsert(p)
  \/ SubmitTestUpdate(p)
  \/ SubmitTestUpdateFails(p)

Next ==
  \/ Tick
  \/ \E p \in Procs : Begin(p)
  \/ \E p \in Procs : Continue(p)

Spec == Init /\ [][Next]_vars

\* Requests one after the other: a request arrives only when no other is in
\* flight (the clock still advances while a request runs).
AllIdle == \A p \in Procs : proc[p].pc = "idle"

NextSeq ==
  \/ Tick
  \/ \E p \in Procs : AllIdle /\ Begin(p)
  \/ \E p \in Procs : Continue(p)

SpecSeq == Init /\ [][NextSeq]_vars

\* The guard on every configuration: the administrator may have set any
\* is_active, start_time and end_time (manage-test takes any updates, the
\* schema constrains none of them), and the request may come at any instant.
TestRows ==
  [is_active : BOOLEAN, start_time : Times, end_time : Times,
   total_questions : {DefaultTotalQuestions},
   duration_minutes : {DefaultDurationMinutes}]

InitGuard ==
  /\ now \in Times
  /\ tests \in [TestIds -> TestRows]
  /\ attempts = {}
  /\ answers = {}
  /\ proc = [p \in Procs |-> Idle]
  /\ ret = NoRet
  /\ client = Unmounted
  /\ net = [p \in Procs |-> Free]
  /\ questions = SampleQuestions

NextGuard ==
  \/ \E p \in Procs, s \in Students, t \in TestIds : StartTestCheck(p, s, t)
  \/ \E p \in Procs : StartTestExisting(p)
  \/ \E p \in Procs : StartTestInsert(p)

SpecGuard == InitGuard /\ [][NextGuard]_vars

\* Two students, hence two attempts, with requests one after the other, all
\* at the instant the window opens.
TwoStudents == {"s1", "s2"}
TwoAttemptIds == 1..Cardinality(TwoStudents)

InitTwo ==
  /\ now = 1
  /\ tests = [t \in TestIds |->
                [is_active |-> TRUE, start_time |-> 1, end_time |-> MaxTime - 1,
                 total_questions |-> DefaultTotalQuestions,
                 duration_minutes |-> DefaultDurationMinutes]]
  /\ attempts = {}
  /\ answers = {}
  /\ proc = [p \in Procs |-> Idle]
  /\ ret = NoRet
  /\ client = Unmounted
  /\ net = [p \in Procs |-> Free]
  /\ questions = SampleQuestions

NextTwo ==
  \/ \E s \in TwoStudents, t \in TestIds : StartTestCheck("p1", s, t)
  \/ \E id \in TwoAttemptIds, q \in QuestionIds, l \in SelectedLetters :
       SubmitAnswerQuestion("p1", id, q, l)
  \/ \E id \in TwoAttemptIds : SubmitTestAnswers("p1", id)
  \/ StartTestExisting("p1")
  \/ StartTestInsert("p1")
  \/ SubmitAnswerUpsert("p1")
  \/ SubmitTestUpdate("p1")
  \/ SubmitTestUpdateFails("p1")

SpecTwo == InitTwo /\ [][NextTwo]_vars

\* Two students start and submit at different instants while the
\* administrator fetches the results; requests one after the other.
NextResults ==
  \/ Tick
  \/ \E s \in TwoStudents, t \in TestIds : StartTestCheck("p1", s, t)
  \/ StartTestExisting("p1")
  \/ StartTestInsert("p1")
  \/ \E id \in TwoAttemptIds : SubmitTestAnswers("p1", id)
  \/ SubmitTestUpdate("p1")
  \/ GetResults("p1")
  \/ GetResultsFails("p1")

SpecResults == Init /\ [][NextResults]_vars

\* ====================================================================
\*                 The store edited behind the handlers
\* ====================================================================
\* A question's correct_answer is rewritten in the store (the questions
\* table is maintained with SQL and scripts, not through a handler).
AnswerKeys == {"A", "B"}

EditQuestion(q, key) ==
  /\ questions[q].correct_answer # key
  /\ questions' = [questions EXCEPT ![q].correct_answer = key]
  /\ ret' = NoRet
  /\ UNCHANGED <<now, tests, attempts, answers, proc, client, net>>

\* One student, requests one after the other at the instant the window
\* opens, while the administrator rewrites answer keys and sets
\* total_questions below the number of question rows.
NextAdmin ==
  \/ \E s \in Students, t \in TestIds : StartTestCheck("p1", s, t)
  \/ StartTestExisting("p1")
  \/ StartTestInsert("p1")
  \/ \E id \in AttemptIdInputs, q \in QuestionIds, l \in SelectedLetters :
       SubmitAnswerQuestion("p1", id, q, l)
  \/ SubmitAnswerUpsert("p1")
  \/ \E id \in AttemptIdInputs : SubmitTestAnswers("p1", id)
  \/ SubmitTestUpdate("p1")
  \/ \E q \in QuestionIds, key \in AnswerKeys : EditQuestion(q, key)
  \/ \E t \in TestIds : ManageTest("p1", t, "total_questions", FewTotalQuestions)

SpecAdmin == InitTwo /\ [][NextAdmin]_vars

\* ====================================================================
\*                  The StudentTest component (the client)
\* ====================================================================
\* One student with the test page open.  One instant of the clock is an hour:
\* 60 minutes of 60 seconds.
SecondsPerTick == 60 * 60
DurationChoices == {DefaultDurationMinutes, AltDurationMinutes}
ClientStudent == "s1"
ClientTest == "t1"
NoAttemptId == 0

Max(a, b) == IF a > b THEN a ELSE b

\* the answers map of the component: no letter for a question not answered
NoLetter == ""
NoAnswers == [q \in QuestionIds |-> NoLetter]
ClientLetters == {"A", "B"}

\* testResult before it is set, and the attempt row loadActiveTest has read
NoResult == [set |-> FALSE]
NoAttempt == [id |-> NoAttemptId]

\* the component's state when it mounts (the useState initial values) with
\* loadActiveTest about to run; shownCompleted, submittedByHand and
\* timerRequests are history (has the page ever shown 'completed'; has a
\* submit of the student completed the attempt; how many submit-test
\* requests the timer has sent) and reloads counts the remounts
Mounted ==
  [pc |-> "l_test", loading |-> TRUE, error |-> "",
   testStatus |-> "not-started", attemptId |-> NoAttemptId,
   timeLeft |-> HardCodedSeconds, submitting |-> FALSE,
   currentTest |-> FALSE, loadNow |-> NoTime,
   answers |-> NoAnswers, testResult |-> NoResult,
   existingAttempt |-> NoAttempt,
   reloads |-> 0, shownCompleted |-> FALSE, submittedByHand |-> FALSE,
   timerRequests |-> 0]

\* a fetch the component has sent, on its way to handler p
Fetch(op, id, byTimer) ==
  [owner |-> "client", op |-> op, attemptId |-> id, byTimer |-> byTimer,
   stage |-> "sent", resp |-> NoRet]

\* a step of the component alone: no request answered, the store untouched
ClientOnly ==
  ret' = NoRet /\ UNCHANGED <<now, tests, attempts, answers, proc, questions>>

\* loadActiveTest, up to its first return or its second await
LoadFailed(message) ==
  client' = [client EXCEPT !.error = message, !.loading = FALSE, !.pc = "idle"]

LoadTest ==
  /\ client.pc = "l_test"
  /\ LET test == tests[ClientTest] IN
       IF ~test.is_active
         THEN LoadFailed("No active test available at the moment.")
       ELSE IF now < test.start_time
         THEN LoadFailed("Test will start at")
       ELSE IF now > test.end_time
         THEN LoadFailed("Test time has expired.")
       ELSE client' = [client EXCEPT !.currentTest = TRUE,
                                     !.timeLeft = test.duration_minutes * 60,
                                     !.loadNow = now,
                                     !.pc = "l_questions"]
  /\ net' = net
  /\ ClientOnly

\* the questions of the test are read; the table holds the 40 the component
\* insists on
LoadQuestions ==
  /\ client.pc = "l_questions"
  /\ client' = [client EXCEPT !.pc = "l_attempt"]
  /\ net' = net
  /\ ClientOnly

\* remaining = Math.max(0, 3600 - elapsed)
Remaining(a) ==
  Max(0, HardCodedSeconds - (client.loadNow - a.started_at) * SecondsPerTick)

\* the student's attempt at the test is read
LoadAttempt ==
  /\ client.pc = "l_attempt"
  /\ LET found == AttemptsOf(ClientStudent, ClientTest) IN
       IF found = {}
         THEN client' = [client EXCEPT !.loading = FALSE, !.pc = "idle"]
       ELSE LET a == CHOOSE x \in found : TRUE IN
         IF a.is_completed
           THEN client' = [client EXCEPT !.testStatus = "completed",
                                         !.shownCompleted = TRUE,
                                         !.existingAttempt = a,
                                         !.pc = "l_rows"]
           ELSE client' = [client EXCEPT !.attemptId = a.id,
                                         !.testStatus = "in-progress",
                                         !.timeLeft = Remaining(a),
                                         !.existingAttempt = a,
                                         !.pc = "l_rows"]
  /\ net' = net
  /\ ClientOnly

\* answersMap[answer.question_id] = answer.selected_answer over the rows read
AnswersMap(rows) ==
  [q \in QuestionIds |->
     IF \E r \in rows : r.question_id = q
       THEN (CHOOSE r \in rows : r.question_id = q).selected_answer
       ELSE NoLetter]

\* the attempt's answers are read: for the result summary of a completed
\* attempt, with the score of the row read before, else for the answers
\* map; then finally setLoading(false)
LoadRows ==
  /\ client.pc = "l_rows"
  /\ LET a == client.existingAttempt IN
       IF a.is_completed
         THEN client' = [client EXCEPT
                           !.testResult = [set |-> TRUE, score |-> a.score],
                           !.loading = FALSE, !.pc = "idle"]
         ELSE client' = [client EXCEPT
                           !.answers = AnswersMap(AnswersOf(a.id)),
                           !.loading = FALSE, !.pc = "idle"]
  /\ net' = net
  /\ ClientOnly

\* what the page renders, in the order of the component's returns
Screen ==
  IF client.loading THEN "loading"
  ELSE IF client.error # "" THEN "error"
  ELSE client.testStatus

FreeSlot(p) == net[p] = Free /\ proc[p].pc = "idle"

\* the Start Test button: startTest up to its fetch
ClickStart(p) ==
  /\ Screen = "not-started"
  /\ client.currentTest
  /\ FreeSlot(p)
  /\ net' = [net EXCEPT ![p] = Fetch("start", NoAttemptId, FALSE)]
  /\ client' = client
  /\ ClientOnly

\* startTest after its fetch
StartResponse(p) ==
  /\ net[p] # Free
  /\ net[p].owner = "client" /\ net[p].op = "start" /\ net[p].stage = "replied"
  /\ client' = IF net[p].resp.status # 200
                 THEN [client EXCEPT !.error = net[p].resp.body.error]
                 ELSE [client EXCEPT !.attemptId = net[p].resp.body.attemptId,
                                     !.testStatus = "in-progress",
                                     !.timeLeft = HardCodedSeconds]
  /\ net' = [net EXCEPT ![p] = Free]
  /\ ClientOnly

\* submitTest up to its fetch, the student having confirmed the dialog
SubmitTestFetch(p, byTimer) ==
  /\ client.attemptId # NoAttemptId
  /\ FreeSlot(p)
  /\ net' = [net EXCEPT ![p] = Fetch("submit", client.attemptId, byTimer)]

\* the Submit Test button (disabled while submitting); a dismissed dialog
\* changes nothing
ClickSubmit(p) ==
  /\ Screen = "in-progress"
  /\ ~client.submitting
  /\ SubmitTestFetch(p, FALSE)
  /\ client' = [client EXCEPT !.submitting = TRUE]
  /\ ClientOnly

\* an option of a question is clicked: handleAnswerSelect sets the answers
\* map and saveAnswer sends submit-answer
AnswerFetch(id, q, l) ==
  [owner |-> "client", op |-> "answer", attemptId |-> id, byTimer |-> FALSE,
   questionId |-> q, selectedAnswer |-> l, stage |-> "sent", resp |-> NoRet]

SelectAnswer(p, q, l) ==
  /\ Screen = "in-progress"
  /\ client.attemptId # NoAttemptId
  /\ FreeSlot(p)
  /\ client' = [client EXCEPT !.answers[q] = l]
  /\ net' = [net EXCEPT ![p] = AnswerFetch(client.attemptId, q, l)]
  /\ ClientOnly

\* saveAnswer after its fetch: the response is not looked at
AnswerResponse(p) ==
  /\ net[p] # Free
  /\ net[p].owner = "client" /\ net[p].op = "answer" /\ net[p].stage = "replied"
  /\ net' = [net EXCEPT ![p] = Free]
  /\ client' = client
  /\ ClientOnly

\* the interval is set while testStatus is 'in-progress' and timeLeft > 0
TimerRunning == client.testStatus = "in-progress" /\ client.timeLeft > 0

\* an hour passes with the interval set: it counts down and, at zero, calls
\* submitTest, whose dialog the student confirms or dismisses
TimerTick ==
  /\ TimerRunning
  /\ now < MaxTime
  /\ now' = now + 1
  /\ IF client.timeLeft > SecondsPerTick
       THEN /\ client' = [client EXCEPT !.timeLeft = @ - SecondsPerTick]
            /\ net' = net
       ELSE \/ /\ client' = [client EXCEPT !.timeLeft = 0]
               /\ net' = net
            \/ \E p \in Procs :
                 /\ SubmitTestFetch(p, TRUE)
                 /\ client' = [client EXCEPT !.timeLeft = 0,
                                             !.submitting = TRUE,
                                             !.timerRequests = @ + 1]
  /\ ret' = NoRet
  /\ UNCHANGED <<tests, attempts, answers, proc, questions>>

\* an hour passes with no interval set
ClientTick == ~TimerRunning /\ Tick

\* submitTest after its fetch: on 200 it reads the attempt's answers, else
\* only finally setSubmitting(false)
SubmitResponse(p) ==
  /\ net[p] # Free
  /\ net[p].owner = "client" /\ net[p].op = "submit" /\ net[p].stage = "replied"
  /\ IF net[p].resp.status = 200
       THEN /\ net' = [net EXCEPT ![p].stage = "reading"]
            /\ client' = client
       ELSE /\ net' = [net EXCEPT ![p] = Free]
            /\ client' = [client EXCEPT !.submitting = FALSE]
  /\ ClientOnly

\* submitTest after the read: setTestStatus('completed'), finally
\* setSubmitting(false)
SubmitRead(p) ==
  /\ net[p] # Free
  /\ net[p].owner = "client" /\ net[p].stage = "reading"
  /\ client' = [client EXCEPT
                  !.testResult = [set |-> TRUE, score |-> net[p].resp.body.score],
                  !.testStatus = "completed",
                  !.shownCompleted = TRUE,
                  !.submittedByHand = @ \/ ~net[p].byTimer,
                  !.submitting = FALSE]
  /\ net' = [net EXCEPT ![p] = Free]
  /\ ClientOnly

\* the page is reloaded: the component mounts afresh; what the old page was
\* waiting for is no longer waited for, but requests already sent still
\* reach their handlers
Orphaned(f) ==
  IF f = Free THEN Free
  ELSE IF f.stage \in {"replied", "reading"} THEN Free
  ELSE [f EXCEPT !.owner = "orphan"]

Reload ==
  /\ client.reloads < MaxReloads
  /\ client' = [Mounted EXCEPT !.reloads = client.reloads + 1,
                               !.shownCompleted = client.shownCompleted,
                               !.submittedByHand = client.submittedByHand,
                               !.timerRequests = client.timerRequests]
  /\ net' = [p \in Procs |-> Orphaned(net[p])]
  /\ ClientOnly

\* the response to a request of a page that is gone
DropResponse(p) ==
  /\ net[p] # Free
  /\ net[p].owner = "orphan" /\ net[p].stage = "replied"
  /\ net' = [net EXCEPT ![p] = Free]
  /\ client' = client
  /\ ClientOnly

\* a request of the component arrives at its handler
Arrived(p, op) == net[p] # Free /\ net[p].stage = "sent" /\ net[p].op = op

ServeStart(p) ==
  Arrived(p, "start") /\ StartTestCheck(p, ClientStudent, ClientTest)

ServeSubmit(p) ==
  Arrived(p, "submit") /\ SubmitTestAnswers(p, net[p].attemptId)

ServeAnswer(p) ==
  /\ Arrived(p, "answer")
  /\ SubmitAnswerQuestion(p, net[p].attemptId, net[p].questionId,
                          net[p].selectedAnswer)

\* The test as configured (either duration), the page just opened.
InitClient ==
  /\ now = 0
  /\ tests \in [TestIds ->
                 [is_active : {TRUE}, start_time : {1}, end_time : {MaxTime - 1},
                  total_questions : {DefaultTotalQuestions},
                  duration_minutes : DurationChoices]]
  /\ attempts = {}
  /\ answers = {}
  /\ proc = [p \in Procs |-> Idle]
  /\ ret = NoRet
  /\ client = Mounted
  /\ net = [p \in Procs |-> Free]
  /\ questions = SampleQuestions

\* every step but a failing store call
NextClientOk ==
  \/ LoadTest
  \/ LoadQuestions
  \/ LoadAttempt
  \/ LoadRows
  \/ \E p \in Procs : ClickStart(p)
  \/ \E p \in Procs : StartResponse(p)
  \/ \E p \in Procs : ClickSubmit(p)
  \/ \E p \in Procs : SubmitResponse(p)
  \/ \E p \in Procs : SubmitRead(p)
  \/ \E p \in Procs : DropResponse(p)
  \/ TimerTick
  \/ ClientTick
  \/ Reload
  \/ \E p \in Procs : ServeStart(p)
  \/ \E p \in Procs : ServeSubmit(p)
  \/ \E p \in Procs : StartTestExisting(p)
  \/ \E p \in Procs : StartTestInsert(p)
  \/ \E p \in Procs : SubmitTestUpdate(p)

NextClient ==
  \/ NextClientOk
  \/ \E p \in Procs : SubmitTestUpdateFails(p)

SpecClient == InitClient /\ [][NextClient]_vars

\* the page and its handlers when every store call succeeds
SpecClientOk == InitClient /\ [][NextClientOk]_vars

\* The student answering: the page open while the window is open, no
\* submit and no clock.
InitAnswers ==
  /\ now = 1
  /\ tests = [t \in TestIds |->
                [is_active |-> TRUE, start_time |-> 1, end_time |-> MaxTime - 1,
                 total_questions |-> DefaultTotalQuestions,
                 duration_minutes |-> DefaultDurationMinutes]]
  /\ attempts = {}
  /\ answers = {}
  /\ proc = [p \in Procs |-> Idle]
  /\ ret = NoRet
  /\ client = Mounted
  /\ net = [p \in Procs |-> Free]
  /\ questions = SampleQuestions

NextAnswers ==
  \/ LoadTest
  \/ LoadQuestions
  \/ LoadAttempt
  \/ LoadRows
  \/ \E p \in Procs : ClickStart(p)
  \/ \E p \in Procs : StartResponse(p)
  \/ \E p \in Procs, q \in QuestionIds, l \in ClientLetters : SelectAnswer(p, q, l)
  \/ \E p \in Procs : AnswerResponse(p)
  \/ \E p \in Procs : DropResponse(p)
  \/ Reload
  \/ \E p \in Procs : ServeStart(p)
  \/ \E p \in Procs : ServeAnswer(p)
  \/ \E p \in Procs : StartTestExisting(p)
  \/ \E p \in Procs : StartTestInsert(p)
  \/ \E p \in Procs : SubmitAnswerUpsert(p)

SpecAnswers == InitAnswers /\ [][NextAnswers]_vars

\* ====================================================================
\*                              Properties
\* ====================================================================
StartErrors400 == {"Test not found or not active",
                   "Test is not available at this time"}

IsStartResponse(r) == r.action = "start-test"
IsSubmitResponse(r) == r.action = "submit-test"

\* C1: in every reachable state the store holds at most one attempt for
\* each (student_id, test_id) pair, whatever the interleaving of start-test
\* requests.
OneAttemptPerPair ==
  \A s \in Students, t \in TestIds : Cardinality(AttemptsOf(s, t)) <= 1

\* two start-test requests raced: the loser's insert was rejected
StartRaceLost ==
  /\ IsStartResponse(ret) /\ ret.status = 500
  /\ AttemptsOf(ret.req.studentId, ret.req.testId) # {}

\* C2: of two successive start-test requests for an admissible test made
\* before the attempt is completed, both succeed; every successful response
\* carries the id and started_at of the one stored attempt of the pair; a
\* resume creates nothing and no step changes a stored id or started_at.
StartTwiceSameAttempt ==
  [][ /\ \A p \in Procs :
           (proc[p].pc \in {"st_existing", "st_insert"} /\ proc'[p].pc = "idle")
           => LET s == proc[p].studentId
                  t == proc[p].testId
              IN \/ \E a \in AttemptsOf(s, t) : a.is_completed
                 \/ /\ ret'.status = 200
                    /\ \E a \in attempts' :
                         /\ a.student_id = proc[p].studentId
                         /\ a.test_id = proc[p].testId
                         /\ ret'.body = [attemptId |-> a.id,
                                         startedAt |-> a.started_at]
                         /\ ~a.is_completed
                    /\ AttemptsOf(s, t) # {} => attempts' = attempts
      /\ \A a \in attempts : \E b \in attempts' :
           /\ b.id = a.id /\ b.started_at = a.started_at
           /\ b.student_id = a.student_id /\ b.test_id = a.test_id
    ]_vars

\* a second start-test answered from the existing attempt, later than its start
ResumedLater ==
  /\ IsStartResponse(ret) /\ ret.status = 200
  /\ ret.body.startedAt < now

\* C3: a submit-test request on an attempt that is already completed returns
\* the stored score and changes nothing in the store.
FinalizeIdempotent ==
  [][ \A p \in Procs :
        (proc[p].pc = "su_update" /\ proc'[p].pc = "idle")
        => \A a \in AttemptById(proc[p].attemptId) :
             a.is_completed
             => /\ attempts' = attempts
                /\ ret'.status = 200 => ret'.body.score = a.score
    ]_vars

\* C4: of two overlapping submit-test requests for one attempt, the one that
\* writes second leaves the store as the first wrote it and returns the same
\* result.  (ret is the response of the step just taken, so the two requests
\* of the antecedent did overlap.)
FinalizeRaceOneWriter ==
  [][ \A p \in Procs :
        ( /\ proc[p].pc = "su_update" /\ proc'[p].pc = "idle"
          /\ IsSubmitResponse(ret) /\ ret.status = 200
          /\ ret'.status = 200
          /\ ret.req.attemptId = proc[p].attemptId
          /\ AttemptById(proc[p].attemptId) # {} )
        => /\ attempts' = attempts
           /\ ret'.body = ret.body
    ]_vars

\* C5: a submit-answer request on a completed attempt fails and leaves the
\* stored answers as they were.
RecordAfterFinalizeRejected ==
  [][ \A p \in Procs :
        ( /\ proc[p].pc = "sa_upsert" /\ proc'[p].pc = "idle"
          /\ \E a \in AttemptById(proc[p].attemptId) : a.is_completed )
        => /\ answers' = answers
           /\ ret'.status # 200
    ]_vars

\* C6: the score submit-test computes is one mark per stored answer of the
\* attempt with is_correct = true minus a quarter mark per stored answer with
\* is_correct = false (here in quarters), nothing for unanswered questions,
\* and that is the score it writes and returns; 10 correct and 5 incorrect
\* answers give 8.75 marks.
ExampleRows ==
  [n \in 1..15 |-> [attempt_id |-> 1, question_id |-> n,
                    selected_answer |-> "A", is_correct |-> n <= 10]]

ScoreFormula ==
  [][ /\ Tally({ExampleRows[n] : n \in 1..15}).score = 35
      /\ \A p \in Procs :
           (proc[p].pc = "idle" /\ proc'[p].pc = "su_update")
           => LET rows == AnswersOf(proc'[p].attemptId) IN
              proc'[p].score =
                4 * Cardinality({r \in rows : r.is_correct})
                  - Cardinality({r \in rows : ~r.is_correct})
      /\ \A p \in Procs :
           (proc[p].pc = "su_update" /\ proc'[p].pc = "idle"
              /\ ret'.status = 200)
           => /\ ret'.body.score = proc[p].score
              /\ \A a \in attempts' :
                   a.id = proc[p].attemptId => a.score = proc[p].score
    ]_vars

\* a submit-test request has read one right and one wrong answer
ScoredMixed ==
  \E p \in Procs :
    /\ proc[p].pc = "su_update"
    /\ proc[p].correct = 1 /\ proc[p].incorrect = 1

\* C7: the result of submit-test satisfies attempted = correct + incorrect
\* and unattempted = total_questions - attempted for the total_questions
\* configured on the attempt's test.
SummaryUsesConfiguredTotal ==
  (IsSubmitResponse(ret) /\ ret.status = 200)
  => \A a \in AttemptById(ret.req.attemptId) :
       /\ ret.body.attempted = ret.body.correct + ret.body.incorrect
       /\ ret.body.unattempted
            = tests[a.test_id].total_questions - ret.body.attempted

\* C8: at most one answer per (attempt_id, question_id), and a submit-answer
\* request for a key that already has an answer succeeds and leaves the
\* latest selected_answer and is_correct stored under the key.
AtMostOneAnswerPerKey ==
  \A id \in AttemptIdInputs, q \in QuestionIds :
    Cardinality(AnswersAt(id, q)) <= 1

AnswerUpsertOverwrites ==
  /\ []AtMostOneAnswerPerKey
  /\ [][ \A p \in Procs :
           ( /\ proc[p].pc = "sa_upsert" /\ proc'[p].pc = "idle"
             /\ AnswersAt(proc[p].attemptId, proc[p].questionId) # {} )
           => /\ ret'.status = 200
              /\ {r \in answers' : /\ r.attempt_id = proc[p].attemptId
                                    /\ r.question_id = proc[p].questionId}
                   = {[attempt_id |-> proc[p].attemptId,
                       question_id |-> proc[p].questionId,
                       selected_answer |-> proc[p].selectedAnswer,
                       is_correct |-> proc[p].isCorrect]}
       ]_vars

\* C9: a start-test request made while the test is inactive, not yet started
\* or expired is answered at once with a 400 "unavailable" error and creates
\* no attempt, whether or not the pair already has an attempt; only requests
\* that passed the guard go on to read or insert attempts.
GuardPasses(test) ==
  test.is_active /\ test.start_time <= now /\ now <= test.end_time

StartDeniedOutsideWindow ==
  [][ /\ \A p \in Procs :
           (proc[p].pc = "idle" /\ proc'[p].pc = "st_existing")
           => GuardPasses(tests[proc'[p].testId])
      /\ (IsStartResponse(ret') /\ proc' = proc)
           => /\ ~GuardPasses(tests[ret'.req.testId])
              /\ ret'.status = 400
              /\ ret'.body.error \in StartErrors400
              /\ attempts' = attempts
      /\ attempts' # attempts
           => \E p \in Procs : proc[p].pc \in {"st_insert", "su_update"}
    ]_vars

\* a start-test was denied for the time window although the attempt exists
DeniedWithAttempt ==
  /\ IsStartResponse(ret) /\ ret.status = 400
  /\ ret.body.error = "Test is not available at this time"
  /\ AttemptsOf(ret.req.studentId, ret.req.testId) # {}

\* C10: a start-test request that finds the pair's attempt completed is
\* answered 400 "already completed", and no step of a start-test request adds
\* an attempt for the pair or changes the completed one.
NoRetake ==
  [][ \A p \in Procs :
        ( /\ proc[p].pc \in {"st_existing", "st_insert"}
          /\ proc'[p] # proc[p]
          /\ \E a \in AttemptsOf(proc[p].studentId, proc[p].testId) :
               a.is_completed )
        => /\ attempts' = attempts
           /\ proc'[p] = Idle
           /\ ret'.status # 200
           /\ proc[p].pc = "st_existing"
                => (ret'.status = 400 /\
                    ret'.body.error = "You have already completed this test")
    ]_vars

\* a start-test was refused because the attempt is completed
RetakeRefused ==
  /\ IsStartResponse(ret) /\ ret.status = 400
  /\ ret.body.error = "You have already completed this test"
  /\ \E a \in AttemptsOf(ret.req.studentId, ret.req.testId) : a.is_completed

\* C11: start-test lets a request through exactly when the test is active
\* and start_time <= now <= end_time, both ends included, and denies it for
\* every other is_active, start_time, end_time and now.
WindowAdmitsExactly ==
  [][ /\ \A t \in TestIds : IsAdmissible(tests[t]) <=> GuardPasses(tests[t])
      /\ \A p \in Procs :
           (proc[p].pc = "idle" /\ proc'[p].pc = "st_existing")
           => GuardPasses(tests[proc'[p].testId])
      /\ (IsStartResponse(ret') /\ proc' = proc)
           => (~GuardPasses(tests[ret'.req.testId]) /\ ret'.status = 400)
    ]_vars

\* a request was let through at the very last instant of the window
AdmittedAtEnd ==
  \E p \in Procs :
    /\ proc[p].pc = "st_existing"
    /\ now = tests[proc[p].testId].end_time

\* C12: the error of a denial tells its cause: the error start-test has just
\* reported is not the one it reports for a test denied for another cause
\* (inactive, not yet started, expired).
DenialCause(test) ==
  IF ~test.is_active THEN "inactive"
  ELSE IF now < test.start_time THEN "not-yet-started"
  ELSE IF now > test.end_time THEN "expired"
  ELSE "admitted"

DistinctDenialReasons ==
  (IsStartResponse(ret) /\ ret.status = 400 /\ ret.body.error \in StartErrors400)
  => \A other \in TestRows :
       DenialCause(other) \notin {"admitted", DenialCause(tests[ret.req.testId])}
       => DenialError(other) # ret.body.error

\* C13: submit-answer computes is_correct as the equality of the selected
\* and the correct letter regardless of case, and only uppercase letters are
\* stored.
Upper(l) ==
  CASE l = "a" -> "A" [] l = "b" -> "B" [] l = "c" -> "C" [] l = "d" -> "D"
    [] OTHER -> l

CaseInsensitiveCorrectness ==
  [][ /\ \A p \in Procs :
           (proc[p].pc = "idle" /\ proc'[p].pc = "sa_upsert"
              /\ AttemptById(proc'[p].attemptId) # {})
           => proc'[p].isCorrect
                = (Upper(proc'[p].selectedAnswer)
                     = Upper(questions[proc'[p].questionId].correct_answer))
      /\ \A r \in answers' : r.selected_answer \in {"A", "B", "C", "D"}
    ]_vars

\* C14: a submit-answer request changes nothing in the store but the answer
\* row of its own (attempt_id, question_id): tests and attempts are
\* untouched and so is every answer stored under another key.
AnswerFrame ==
  [][ \A p \in Procs :
        /\ (proc[p].pc = "idle" /\ proc'[p].pc = "sa_upsert")
             => (attempts' = attempts /\ answers' = answers /\ tests' = tests)
        /\ (proc[p].pc = "sa_upsert" /\ proc'[p].pc = "idle")
             => /\ attempts' = attempts
                /\ tests' = tests
                /\ {r \in answers' : ~(/\ r.attempt_id = proc[p].attemptId
                                       /\ r.question_id = proc[p].questionId)}
                     = {r \in answers : ~(/\ r.attempt_id = proc[p].attemptId
                                          /\ r.question_id = proc[p].questionId)}
    ]_vars

\* an answer was just stored while the same attempt holds another answer and
\* another attempt exists with an answer of its own
AnswerStoredAmongOthers ==
  /\ ret.action = "submit-answer" /\ ret.status = 200
  /\ \E r \in answers : /\ r.attempt_id = ret.req.attemptId
                        /\ r.question_id # ret.req.questionId
  /\ \E r \in answers : r.attempt_id # ret.req.attemptId
  /\ Cardinality(attempts) = 2

\* C15: a submit-test request that succeeds on a not yet completed attempt
\* leaves it completed, with submitted_at the instant of the update and the
\* stored score the one returned; when the update fails the response is an
\* error without a score and the attempt is as it was.
FinalizeWritesResult ==
  [][ \A p \in Procs :
        (proc[p].pc = "su_update" /\ proc'[p].pc = "idle")
        => IF ret'.status = 200
           THEN \A a \in AttemptById(proc[p].attemptId) :
                  ~a.is_completed
                  => \E b \in attempts' :
                       /\ b.id = a.id
                       /\ b.is_completed
                       /\ b.submitted_at = now
                       /\ b.score = ret'.body.score
                       /\ b.started_at = a.started_at
           ELSE /\ attempts' = attempts
                /\ DOMAIN ret'.body = {"error"}
    ]_vars

\* an attempt has just been completed with a score that is not the default
FinalizedWithScore ==
  /\ IsSubmitResponse(ret) /\ ret.status = 200
  /\ ret.body.score # 0
  /\ \E a \in AttemptById(ret.req.attemptId) :
       a.is_completed /\ a.score = ret.body.score /\ a.submitted_at = now

\* C17: the insert of a start-test request always ends in success with the
\* stored attempt of the pair, also when a concurrent request for the pair
\* has inserted first.
StartRaceBothSucceed ==
  [][ \A p \in Procs :
        (proc[p].pc = "st_insert" /\ proc'[p].pc = "idle")
        => /\ ret'.status = 200
           /\ \E a \in attempts' :
                /\ a.student_id = proc[p].studentId
                /\ a.test_id = proc[p].testId
                /\ ret'.body = [attemptId |-> a.id, startedAt |-> a.started_at]
    ]_vars

\* ----------------------------------------------------------------------
\* C16: a completed attempt stays completed forever: no step takes
\* is_completed of an attempt from true to false, and a page that has shown
\* 'completed' never again shows the test as in progress or not started,
\* a reloaded page included once it has finished loading.
\* ----------------------------------------------------------------------
CompletedIsTerminal ==
  [][/\ \A a \in attempts : a.is_completed =>
          \E b \in attempts' : b.id = a.id /\ b.is_completed
     /\ (client.shownCompleted /\ ~client'.loading) =>
          client'.testStatus = "completed"]_vars

\* ----------------------------------------------------------------------
\* C18: the countdown reaching zero triggers the submit path once: whatever
\* ticks, re-renders or submits in flight there are, the timer sends at most
\* one submit-test request.
\* ----------------------------------------------------------------------
TimerSubmitsOnce == client.timerRequests <= 1

\* ----------------------------------------------------------------------
\* C19: automatic expiry completes the attempt without the student: whenever
\* the page shows the attempt in progress with no time left (counted down or
\* resumed at zero) and the attempt is not yet completed, a submit-test
\* request of the page is on its way; otherwise nothing but an action of the
\* student could ever complete the attempt.  Store calls succeed.
\* ----------------------------------------------------------------------
FinalizeInFlight ==
  \E p \in Procs : net[p] # Free /\ net[p].op = "submit"

ExpiredIsBeingFinalized ==
  (/\ client.testStatus = "in-progress"
   /\ client.timeLeft = 0
   /\ \A a \in AttemptsOf(ClientStudent, ClientTest) : ~a.is_completed)
  => FinalizeInFlight

\* ----------------------------------------------------------------------
\* C20: when the page resumes an attempt that already exists, the remaining
\* time it sets is duration_minutes * 60 of the test as configured, minus the
\* seconds elapsed since the attempt's started_at, and not below 0.
\* ----------------------------------------------------------------------
RemainingConfigured(a) ==
  Max(0, tests[ClientTest].duration_minutes * 60
           - (client.loadNow - a.started_at) * SecondsPerTick)

ResumeUsesConfiguredDuration ==
  [][(client.pc = "l_attempt" /\ client'.testStatus = "in-progress") =>
       \A a \in AttemptsOf(ClientStudent, ClientTest) :
         client'.timeLeft = RemainingConfigured(a)]_vars

\* ----------------------------------------------------------------------
\* C25: for every completed attempt the stored score is what its stored
\* answers give: +1 per answer with is_correct = true, -0.25 per answer with
\* is_correct = false (in quarters).
\* ----------------------------------------------------------------------
CompletedScoreMatchesAnswers ==
  \A a \in attempts :
    a.is_completed =>
      a.score = Tally({r \in answers : r.attempt_id = a.id}).score

\* ----------------------------------------------------------------------
\* C26: every attempt that is not completed has score 0 and no
\* submitted_at; an attempt is created with started_at = now, is_completed
\* = false and score 0, and only a successful submit-test changes the
\* score, submitted_at or is_completed of an existing attempt.
\* ----------------------------------------------------------------------
AttemptResultOnlyByFinalize ==
  [][/\ \A a \in attempts' :
          ~a.is_completed => a.score = 0 /\ a.submitted_at = NoTime
     /\ \A a \in attempts' \ attempts :
          IF \E b \in attempts : b.id = a.id
            THEN IsSubmitResponse(ret') /\ ret'.status = 200
            ELSE /\ IsStartResponse(ret')
                 /\ a.started_at = now
                 /\ ~a.is_completed
                 /\ a.score = 0
                 /\ a.submitted_at = NoTime]_vars

\* an attempt still in progress with an answer recorded, some time after it
\* was started
InProgressWithAnswers ==
  \E a \in attempts :
    /\ ~a.is_completed
    /\ a.started_at < now
    /\ \E r \in answers : r.attempt_id = a.id

StoredCorrectnessIsFinal ==
  [][/\ \A r \in answers, r2 \in answers' :
          (r2.attempt_id = r.attempt_id /\ r2.question_id = r.question_id)
            => r2.is_correct = r.is_correct
     /\ (questions' # questions) => answers' = answers
     /\ (IsSubmitResponse(ret') /\ ret'.status = 200) =>
          ret'.body.score =
            Tally({r \in answers : r.attempt_id = ret'.req.attemptId}).score]_vars

\* a submit-test answered after the key of an answered question was
\* rewritten: the stored is_correct is not what the question gives now
ScoredAfterKeyChange ==
  /\ IsSubmitResponse(ret)
  /\ ret.status = 200
  /\ \E r \in answers :
       /\ r.attempt_id = ret.req.attemptId
       /\ r.is_correct # (questions[r.question_id].correct_answer = r.selected_answer)

\* ----------------------------------------------------------------------
\* C27: every submit-test result is within the bounds of the test's
\* total_questions: 0 <= attempted <= total_questions, unattempted >= 0 and
\* -0.25 * total_questions <= score <= total_questions (in quarters).
\* ----------------------------------------------------------------------
ResultWithinTotal ==
  [][(IsSubmitResponse(ret') /\ ret'.status = 200) =>
       \A a \in attempts :
         a.id = ret'.req.attemptId =>
           LET total == tests[a.test_id].total_questions IN
             /\ 0 <= ret'.body.attempted
             /\ ret'.body.attempted <= total
             /\ ret'.body.unattempted >= 0
             /\ ret'.body.score >= 0 - IncorrectPenalty * total
             /\ ret'.body.score <= CorrectMark * total]_vars

\* ----------------------------------------------------------------------
\* C30: a get-results answered 200 returns exactly the attempts with
\* is_completed = true, each once, latest submitted_at first, and no
\* get-results changes the store.
\* ----------------------------------------------------------------------
IsResultsResponse(r) == r.action = "get-results"

ResultsAreTheCompleted ==
  [][IsResultsResponse(ret') =>
       /\ <<tests', attempts', answers', questions'>>
            = <<tests, attempts, answers, questions>>
       /\ ret'.status = 200 =>
            /\ {ret'.body[i] : i \in DOMAIN ret'.body}
                 = {a \in attempts : a.is_completed}
            /\ Len(ret'.body) = Cardinality({a \in attempts : a.is_completed})
            /\ \A i, j \in DOMAIN ret'.body :
                 i < j => ret'.body[i].submitted_at >= ret'.body[j].submitted_at]_vars

\* two attempts submitted at different instants, returned latest first
TwoResultsInOrder ==
  /\ IsResultsResponse(ret)
  /\ ret.status = 200
  /\ Len(ret.body) = 2
  /\ ret.body[1].submitted_at > ret.body[2].submitted_at

\* ----------------------------------------------------------------------
\* C28: while the page shows the attempt in progress and no request is in
\* flight, its answers map agrees with the store: a question maps to letter
\* L exactly when the store holds the answer (attemptId, question) with
\* selected_answer L.
\* ----------------------------------------------------------------------
Quiet ==
  \A p \in Procs : net[p] = Free /\ proc[p].pc = "idle"

AnswersMapAgreesWithStore ==
  (Screen = "in-progress" /\ Quiet) =>
    \A q \in QuestionIds, l \in SelectedLetters :
      client.answers[q] = l
        <=> \E r \in answers : /\ r.attempt_id = client.attemptId
                               /\ r.question_id = q
                               /\ r.selected_answer = l

\* ----------------------------------------------------------------------
\* C21: on every load the page takes its status from the persisted attempt
\* of the student alone: when loadActiveTest settles the status, it is
\* 'completed' if a completed attempt exists, 'in-progress' with the
\* attempt's id if an attempt exists that is not completed, 'not-started' if
\* none exists; and when it ends, a completed attempt is shown with its
\* stored score and an attempt in progress with its stored answers.
\* ----------------------------------------------------------------------
StatusFromStore(found) ==
  IF found = {} THEN "not-started"
  ELSE IF \E a \in found : a.is_completed THEN "completed"
  ELSE "in-progress"

LoadDerivesStatusFromAttempt ==
  [][LET found == AttemptsOf(ClientStudent, ClientTest) IN
     /\ (client.pc \in {"l_test", "l_attempt"} /\ client'.pc \in {"idle", "l_rows"})
          => /\ client'.testStatus = StatusFromStore(found)
             /\ client'.testStatus = "in-progress"
                  => \E a \in found : client'.attemptId = a.id
     /\ (client.pc = "l_rows" /\ client'.pc = "idle")
          => /\ client'.testStatus = "completed"
                  => /\ client'.testResult.set
                     /\ \E a \in found : client'.testResult.score = a.score
             /\ client'.testStatus = "in-progress"
                  => client'.answers
                       = AnswersMap({r \in answers : r.attempt_id = client'.attemptId})]_vars

\* ----------------------------------------------------------------------
\* C22: no failure of start-test, submit-answer or submit-test is swallowed:
\* when the page takes a response that is not 200 off a fetch, it shows an
\* error or sends the request again.
\* ----------------------------------------------------------------------
FailuresAreShown ==
  [][\A p \in Procs :
       (/\ net[p] # Free
        /\ net[p].owner = "client"
        /\ net[p].stage = "replied"
        /\ net[p].resp.status # 200
        /\ net'[p] = Free
        /\ client'.reloads = client.reloads)
       => \/ client'.error # ""
          \/ \E p2 \in Procs : /\ net'[p2] # Free
                               /\ net'[p2].op = net[p].op
                               /\ net'[p2].stage = "sent"]_vars

\* ----------------------------------------------------------------------
\* C24: the countdown is cancelled when the page leaves in-progress: once a
\* submit of the student has moved testStatus to 'completed', the interval
\* never fires again and the timer sends no submit-test request.
\* ----------------------------------------------------------------------
TimerCancelledAfterSubmit ==
  [][client.submittedByHand =>
       /\ ~TimerTick
       /\ client'.timerRequests = client.timerRequests]_vars

====
